---- MODULE Spec2Model ----
(***************************************************************************)
(* A model of generate_life_calendar.py: the date utilities, the text      *)
(* fitting routines, the grid drawing loops and gen_calendar's pipeline.   *)
(*                                                                         *)
(* Dates are proleptic Gregorian ordinals, as datetime keeps them          *)
(* (ordinal 1 is 0001-01-01, a Monday); every datetime of the program has  *)
(* time 00:00, so comparing datetimes is comparing ordinals.               *)
(***************************************************************************)
EXTENDS Integers, Sequences, FiniteSets

(***************************************************************************)
(* datetime: the calendar arithmetic the program calls.                    *)
(***************************************************************************)

is_leap(year) == (year % 4 = 0) /\ ((year % 100 # 0) \/ (year % 400 = 0))

DAYS_BEFORE_MONTH == <<0, 31, 59, 90, 120, 151, 181, 212, 243, 273, 304, 334>>

DAYS_IN_MONTH == <<31, 28, 31, 30, 31, 30, 31, 31, 30, 31, 30, 31>>

days_in_month(year, month) ==
    IF month = 2 /\ is_leap(year) THEN 29 ELSE DAYS_IN_MONTH[month]

days_before_year(year) ==
    LET y == year - 1
    IN  y * 365 + (y \div 4) - (y \div 100) + (y \div 400)

days_before_month(year, month) ==
    DAYS_BEFORE_MONTH[month] + (IF month > 2 /\ is_leap(year) THEN 1 ELSE 0)

\* datetime.datetime(year, month, day) succeeds iff the day exists.
valid_date(year, month, day) ==
    /\ month \in 1..12
    /\ day \in 1..days_in_month(year, month)

\* The ordinal of datetime.datetime(year, month, day).
ymd2ord(year, month, day) ==
    days_before_year(year) + days_before_month(year, month) + day

\* The (year, month, day) of an ordinal, by datetime's own algorithm
\* (_ord2ymd), one operator for each stretch of its assignments, last first.

\* n -= preceding; return year, month, n + 1
ord2ymd_day(year, month, n, leapyear) ==
    [year |-> year, month |-> month,
     day |-> n - (DAYS_BEFORE_MONTH[month] + (IF month > 2 /\ leapyear THEN 1 ELSE 0)) + 1]

\* month = (n + 50) >> 5, one less when the estimate is too large.
ord2ymd_month(year, n, leapyear, month) ==
    IF DAYS_BEFORE_MONTH[month] + (IF month > 2 /\ leapyear THEN 1 ELSE 0) > n
    THEN ord2ymd_day(year, month - 1, n, leapyear)
    ELSE ord2ymd_day(year, month, n, leapyear)

\* if n1 == 4 or n100 == 4: return year - 1, 12, 31
ord2ymd_year(year, n100, n4, n1, n) ==
    IF n1 = 4 \/ n100 = 4
    THEN [year |-> year - 1, month |-> 12, day |-> 31]
    ELSE ord2ymd_month(year, n, (n1 = 3) /\ ((n4 # 24) \/ (n100 = 3)), (n + 50) \div 32)

\* n1, n = divmod(n, 365); year += n100 * 100 + n4 * 4 + n1
ord2ymd_4(n400, n100, n4, n) ==
    ord2ymd_year(n400 * 400 + 1 + n100 * 100 + n4 * 4 + (n \div 365),
                 n100, n4, n \div 365, n % 365)

\* n4, n = divmod(n, 1461)
ord2ymd_100(n400, n100, n) == ord2ymd_4(n400, n100, n \div 1461, n % 1461)

\* n100, n = divmod(n, 36524)
ord2ymd_400(n400, n) == ord2ymd_100(n400, n \div 36524, n % 36524)

\* n -= 1; n400, n = divmod(n, 146097)
ord2ymd(ordinal) == ord2ymd_400((ordinal - 1) \div 146097, (ordinal - 1) % 146097)

\* date.year, date.month, date.day
year_of(ordinal) == ord2ymd(ordinal).year
month_of(ordinal) == ord2ymd(ordinal).month
day_of(ordinal) == ord2ymd(ordinal).day

\* date.weekday(): Monday is 0, Sunday is 6.
weekday(ordinal) == (ordinal + 6) % 7

\* datetime.timedelta(weeks=n), in days.
weeks(n) == 7 * n

(***************************************************************************)
(* DateMath.                                                               *)
(***************************************************************************)

SUNDAY == 6

\* A variant that steps back before it tests the weekday.
RECURSIVE back_up_step_first(_)
back_up_step_first(date) ==
    IF weekday(date - 1) # SUNDAY THEN back_up_step_first(date - 1) ELSE date - 1

RECURSIVE back_up_to_sunday(_)
back_up_to_sunday(date) ==
    IF weekday(date) # SUNDAY THEN back_up_to_sunday(date - 1) ELSE date

is_future(now, date) == now < date

\* The candidate date is_current_week builds for one year: the ordinal, or
\* 0 when datetime.datetime raises and the except clause re-raises.
candidate_date(year, month, day) ==
    IF valid_date(year, month, day) THEN ymd2ord(year, month, day)
    ELSE IF (month = 2) /\ (day = 29) THEN ymd2ord(year, month, day - 1)
    ELSE 0

\* A variant that tries the current year only.
candidate_years_one(year) == {year}

\* for year in [now.year, now.year + 1]
candidate_years(year) == {year, year + 1}

\* A variant whose interval is closed at its end.
in_week_closed(now, date) == (now <= date) /\ (date <= now + weeks(1))

in_week(now, date) == (now <= date) /\ (date < now + weeks(1))

is_current_week_raises(now, month, day) ==
    \E year \in candidate_years(year_of(now)) : candidate_date(year, month, day) = 0

is_current_week(now, month, day) ==
    \E year \in candidate_years(year_of(now)) :
        in_week(now, candidate_date(year, month, day))

parse_darken_until_date(date) == back_up_to_sunday(date)

(***************************************************************************)
(* GridLayout and DocumentComposer: the module's constants and the pure    *)
(* parts of draw_row, draw_grid and gen_calendar.  A colour is its three   *)
(* channels in tenths.                                                     *)
(***************************************************************************)

DOC_HEIGHT == 2383
MAX_TITLE_SIZE == 50
DEFAULT_TITLE_LEN == 28
Y_MARGIN == 330
BOX_MARGIN == 6
BOTTOM_MARGIN == 120
MIN_AGE == 80
MAX_AGE == 100
NUM_COLUMNS == 52

WHITE == <<10, 10, 10>>
BIRTHDAY_COLOUR == <<5, 5, 5>>
NEWYEAR_COLOUR == <<8, 8, 8>>
DARKENED_COLOUR_DELTA == <<-4, -4, -4>>

\* None, for a date argument: no ordinal is 0.
None == 0

TITLE_ERROR == "Title can't be longer than 50 characters"
AGE_ERROR == "Invalid age, must be between 80 and 100"

get_darkened_fill(fill) == [k \in 1..3 |-> fill[k] + DARKENED_COLOUR_DELTA[k]]

\* A variant that tests for the first week of the year first.
base_fill_newyear_first(date, month, day) ==
    IF is_current_week(date, 1, 1) THEN NEWYEAR_COLOUR
    ELSE IF is_current_week(date, month, day) THEN BIRTHDAY_COLOUR
    ELSE WHITE

\* draw_row's fill before darkening.
base_fill(date, month, day) ==
    IF is_current_week(date, month, day) THEN BIRTHDAY_COLOUR
    ELSE IF is_current_week(date, 1, 1) THEN NEWYEAR_COLOUR
    ELSE WHITE

\* A variant that also darkens the week that starts on the date itself.
darkens_through(date, darken_until_date) ==
    (darken_until_date # None) /\ (date <= darken_until_date)

\* darken_until_date and is_future(date, darken_until_date)
darkens(date, darken_until_date) ==
    (darken_until_date # None) /\ is_future(date, darken_until_date)

\* draw_row's fill as drawn.
drawn_fill(fill, date, darken_until_date) ==
    IF darkens(date, darken_until_date) THEN get_darkened_fill(fill) ELSE fill

\* A variant whose rows are 51 weeks apart.
next_row_date_51(date) == date + weeks(51)

\* date += datetime.timedelta(weeks=52)
next_row_date(date) == date + weeks(52)

\* box_size = (available_height / num_rows) - BOX_MARGIN, as a fraction.
box_size_of(num_rows) ==
    LET available_height == DOC_HEIGHT - Y_MARGIN - BOTTOM_MARGIN
    IN  <<available_height - BOX_MARGIN * num_rows, num_rows>>

\* A variant that also refuses a title of exactly the maximum length.
title_too_long_at_max(title_len) == title_len >= MAX_TITLE_SIZE

title_too_long(title_len) == title_len > MAX_TITLE_SIZE

age_invalid(age) == (age < MIN_AGE) \/ (age > MAX_AGE)

(***************************************************************************)
(* TextFit.  A string is a sequence of characters; ctx.text_extents is     *)
(* the drawing library's, and stands here as the sum of the characters'    *)
(* advances.                                                               *)
(***************************************************************************)

Chars == {"i", "m", " "}

char_width(c) == IF c = "m" THEN 2 ELSE 1

RECURSIVE text_width(_)
text_width(text) ==
    IF text = <<>> THEN 0 ELSE char_width(Head(text)) + text_width(Tail(text))

\* str.split(): the maximal runs of characters that are not whitespace.
RECURSIVE split_from(_, _, _, _)
split_from(text, i, word, words) ==
    IF i > Len(text)
    THEN IF word = <<>> THEN words ELSE Append(words, word)
    ELSE IF text[i] = " "
    THEN split_from(text, i + 1, <<>>, IF word = <<>> THEN words ELSE Append(words, word))
    ELSE split_from(text, i + 1, Append(word, text[i]), words)

split(text) == split_from(text, 1, <<>>, <<>>)

test_line(current_line, word) ==
    current_line \o (IF current_line # <<>> THEN <<" ">> ELSE <<>>) \o word

\* A variant that measures the new word alone.
test_width_of_word(current_line, word) == text_width(word)

test_width(current_line, word) == text_width(test_line(current_line, word))

\* Rationals, as <<numerator, denominator>> with a positive denominator.
rat(n) == <<n, 1>>
rat_add(a, b) == <<a[1] * b[2] + b[1] * a[2], a[2] * b[2]>>
rat_sub(a, b) == <<a[1] * b[2] - b[1] * a[2], a[2] * b[2]>>
rat_div(a, n) == <<a[1], a[2] * n>>
rat_eq(a, b) == a[1] * b[2] = b[1] * a[2]

\* x + (target_width / 2) - (w / 2)
centered_x(x, target_width, w) ==
    rat_sub(rat_add(rat(x), rat_div(rat(target_width), 2)), rat_div(rat(w), 2))

RECURSIVE sum_word_widths(_)
sum_word_widths(words) ==
    IF words = <<>> THEN 0 ELSE text_width(Head(words)) + sum_word_widths(Tail(words))

\* A variant that divides the slack by the number of words.
space_between_words_n(target_width, words) ==
    rat_div(rat(target_width - sum_word_widths(words)), Len(words))

space_between_words(target_width, words) ==
    rat_div(rat(target_width - sum_word_widths(words)), Len(words) - 1)

\* natural_width < target_width * 0.75
below_three_quarters(natural_width, target_width) ==
    4 * natural_width < 3 * target_width

(***************************************************************************)
(* State.                                                                  *)
(***************************************************************************)
VARIABLES
    wk_pc, wk_now, wk_month, wk_day, wk_ret,   \* a call of is_current_week
    su_pc, su_in, su_out,                      \* a call of back_up_to_sunday
    \* a call of wrap_text: its arguments, words, loop index and locals
    wr_pc, wr_text, wr_max_width, wr_words, wr_i, wr_current_line, wr_lines,
    \* a call of draw_justified_text: its arguments, words, loop index,
    \* current_x, and the (move_to x, show_text text) pairs it has emitted
    jt_pc, jt_text, jt_x, jt_target_width, jt_is_last_line, jt_words, jt_i,
    jt_current_x, jt_ops,
    \* gen_calendar: where it is, its arguments (title_len is len(title);
    \* sidebar_text and subtitle_text are whether the argument is given),
    \* the exception it raised, whether the PDF surface exists, and the
    \* number of drawing calls made on the context
    gc_pc, birthdate, title_len, age, darken_until_date, sidebar_text,
    subtitle_text, error, surface, ops,
    \* draw_grid's locals: date, start_date, num_rows, box_size, the row index
    date, start_date, num_rows, box_size, row,
    \* draw_row's locals: the column index and its own date
    col, cell_date,
    \* what has been drawn: the last square, the date of the square before
    \* it, how many squares of each fill, and the dates of the squares of
    \* the current row that draw_row classified as birthday weeks
    last_square, prev_square_date, fill_counts, row_birthdays

wk_vars == <<wk_pc, wk_now, wk_month, wk_day, wk_ret>>
su_vars == <<su_pc, su_in, su_out>>
wr_vars == <<wr_pc, wr_text, wr_max_width, wr_words, wr_i, wr_current_line, wr_lines>>
jt_vars == <<jt_pc, jt_text, jt_x, jt_target_width, jt_is_last_line, jt_words, jt_i,
             jt_current_x, jt_ops>>

gc_vars == <<gc_pc, birthdate, title_len, age, darken_until_date, sidebar_text,
             subtitle_text, error, surface, ops, date, start_date, num_rows,
             box_size, row, col, cell_date, last_square, prev_square_date,
             fill_counts, row_birthdays>>

vars == <<wk_vars, su_vars, wr_vars, jt_vars, gc_vars>>

WeekIdle == wk_pc = "idle" /\ wk_now = 0 /\ wk_month = 0 /\ wk_day = 0 /\ wk_ret = FALSE
SundayIdle == su_pc = "idle" /\ su_in = 0 /\ su_out = 0
WrapIdle ==
    /\ wr_pc = "idle" /\ wr_text = <<>> /\ wr_max_width = 0 /\ wr_words = <<>>
    /\ wr_i = 0 /\ wr_current_line = <<>> /\ wr_lines = <<>>
JustifyIdle ==
    /\ jt_pc = "idle" /\ jt_text = <<>> /\ jt_x = 0 /\ jt_target_width = 0
    /\ jt_is_last_line = FALSE /\ jt_words = <<>> /\ jt_i = 0
    /\ jt_current_x = rat(0) /\ jt_ops = <<>>

Fills == {WHITE, BIRTHDAY_COLOUR, NEWYEAR_COLOUR}

AllFills == Fills \cup {get_darkened_fill(f) : f \in Fills}

NoSquare == [row |-> -1, col |-> -1, date |-> 0, fill |-> WHITE]

\* Nothing drawn, no local set.
CalendarFresh ==
    /\ error = "" /\ ops = 0
    /\ date = 0 /\ start_date = 0 /\ num_rows = 0 /\ box_size = rat(0) /\ row = 0
    /\ col = 0 /\ cell_date = 0
    /\ last_square = NoSquare /\ prev_square_date = 0
    /\ fill_counts = [f \in AllFills |-> 0] /\ row_birthdays = {}

CalendarIdle ==
    /\ gc_pc = "idle" /\ birthdate = 0 /\ title_len = 0 /\ age = 0
    /\ darken_until_date = None /\ sidebar_text = FALSE /\ subtitle_text = FALSE
    /\ surface = FALSE
    /\ CalendarFresh

(***************************************************************************)
(* is_current_week as a call: SpecWeek.                                    *)
(***************************************************************************)
NumWeekDays == 800

WeekFirstDay == ymd2ord(2022, 12, 20)

WeekDates == WeekFirstDay..(WeekFirstDay + NumWeekDays - 1)

\* (month, day) arguments: real anniversaries, the leap day, and two days no
\* year has.
WeekTargets == {<<1, 1>>, <<2, 28>>, <<2, 29>>, <<3, 1>>, <<6, 15>>,
                <<12, 31>>, <<2, 30>>, <<4, 31>>}

InitWeek ==
    /\ wk_pc = "called"
    /\ wk_now \in WeekDates
    /\ \E t \in WeekTargets : wk_month = t[1] /\ wk_day = t[2]
    /\ wk_ret = FALSE
    /\ SundayIdle /\ WrapIdle /\ JustifyIdle /\ CalendarIdle

WeekReturn ==
    /\ wk_pc = "called"
    /\ ~is_current_week_raises(wk_now, wk_month, wk_day)
    /\ wk_pc' = "returned"
    /\ wk_ret' = is_current_week(wk_now, wk_month, wk_day)
    /\ UNCHANGED <<wk_now, wk_month, wk_day, su_vars, wr_vars, jt_vars, gc_vars>>

WeekRaise ==
    /\ wk_pc = "called"
    /\ is_current_week_raises(wk_now, wk_month, wk_day)
    /\ wk_pc' = "raised"
    /\ UNCHANGED <<wk_now, wk_month, wk_day, wk_ret, su_vars, wr_vars, jt_vars, gc_vars>>

NextWeek == WeekReturn \/ WeekRaise

SpecWeek == InitWeek /\ [][NextWeek]_vars

\* The calendar date the claim names for a candidate year: (year, month, day),
\* with 28 February standing in for 29 February in a year that is not leap.
ClaimDate(year, month, day) ==
    IF month = 2 /\ day = 29 /\ ~is_leap(year)
    THEN [year |-> year, month |-> 2, day |-> 28]
    ELSE [year |-> year, month |-> month, day |-> day]

\* Some day t of [now, now + 7 days) is the claim's date for a year of `years`.
SomeDayOfWeekIs(now, month, day, years) ==
    \E t \in now..(now + 6) :
        \E year \in years : ord2ymd(t) = ClaimDate(year, month, day)

\* C1: is_current_week(now, month, day) returns true iff, for some year in
\* {now.year, now.year + 1}, the calendar date (year, month, day), with
\* (year, Feb, 28) for (Feb, 29) in a non-leap year, lies in [now, now + 7 days);
\* no other year's date can lie there; is_in_week(2023-02-27, 2, 29) is true
\* and is_in_week(2023-03-01, 2, 29) is false.
C1_IsCurrentWeek ==
    wk_pc = "returned" =>
        /\ wk_ret <=> SomeDayOfWeekIs(wk_now, wk_month, wk_day,
                                       {year_of(wk_now), year_of(wk_now) + 1})
        /\ wk_ret <=> SomeDayOfWeekIs(wk_now, wk_month, wk_day,
                                       (year_of(wk_now) - 1)..(year_of(wk_now) + 2))
        /\ (wk_now = ymd2ord(2023, 2, 27) /\ wk_month = 2 /\ wk_day = 29) => wk_ret
        /\ (wk_now = ymd2ord(2023, 3, 1) /\ wk_month = 2 /\ wk_day = 29) => ~wk_ret

\* The leap-day birthday is found in the week of 2023-02-27, by 28 February.
C1_Witness ==
    /\ wk_pc = "returned"
    /\ wk_now = ymd2ord(2023, 2, 27) /\ wk_month = 2 /\ wk_day = 29
    /\ wk_ret

(***************************************************************************)
(* back_up_to_sunday as a call: SpecSunday.                                *)
(***************************************************************************)
NumSundayDays == 400

SundayFirstDay == ymd2ord(2023, 12, 1)

InitSunday ==
    /\ su_pc = "called"
    /\ su_in \in SundayFirstDay..(SundayFirstDay + NumSundayDays - 1)
    /\ su_out = 0
    /\ WeekIdle /\ WrapIdle /\ JustifyIdle /\ CalendarIdle

SundayReturn ==
    /\ su_pc = "called"
    /\ su_pc' = "returned"
    /\ su_out' = back_up_to_sunday(su_in)
    /\ UNCHANGED <<su_in, wk_vars, wr_vars, jt_vars, gc_vars>>

NextSunday == SundayReturn

SpecSunday == InitSunday /\ [][NextSunday]_vars

\* 2023-11-19 was a Sunday.
IsSunday(d) == (d - ymd2ord(2023, 11, 19)) % 7 = 0

\* C2: back_up_to_sunday(d) terminates and returns a Sunday r with r <= d and
\* 0 <= d - r < 7; a date already on a Sunday is returned unchanged.
C2_BackUpToSunday ==
    su_pc = "returned" =>
        /\ IsSunday(su_out)
        /\ su_out <= su_in
        /\ su_in - su_out < 7
        /\ IsSunday(su_in) => su_out = su_in

\* A Sunday came back unchanged.
C2_Witness ==
    su_pc = "returned" /\ IsSunday(su_in) /\ su_out = su_in

(***************************************************************************)
(* wrap_text as a call: SpecWrap.                                          *)
(***************************************************************************)
MaxTextLen == 6

MaxWrapWidth == 5

Texts(n) == UNION {[1..k -> Chars] : k \in 0..n}

InitWrap ==
    /\ wr_pc = "called"
    /\ wr_text \in Texts(MaxTextLen)
    /\ wr_max_width \in 0..MaxWrapWidth
    /\ wr_words = <<>> /\ wr_i = 0 /\ wr_current_line = <<>> /\ wr_lines = <<>>
    /\ WeekIdle /\ SundayIdle /\ JustifyIdle /\ CalendarIdle

\* words = text.split(); lines = []; current_line = ""
WrapBegin ==
    /\ wr_pc = "called"
    /\ wr_pc' = "loop"
    /\ wr_words' = split(wr_text)
    /\ wr_i' = 1
    /\ wr_lines' = <<>>
    /\ wr_current_line' = <<>>
    /\ UNCHANGED <<wr_text, wr_max_width, wk_vars, su_vars, jt_vars, gc_vars>>

\* test_width <= max_width: the word joins the current line.
WrapFits ==
    /\ wr_pc = "loop" /\ wr_i <= Len(wr_words)
    /\ test_width(wr_current_line, wr_words[wr_i]) <= wr_max_width
    /\ wr_current_line' = test_line(wr_current_line, wr_words[wr_i])
    /\ wr_i' = wr_i + 1
    /\ UNCHANGED <<wr_pc, wr_text, wr_max_width, wr_words, wr_lines,
                   wk_vars, su_vars, jt_vars, gc_vars>>

\* Overflow with a line open: close it, the word starts the next line.
WrapBreak ==
    /\ wr_pc = "loop" /\ wr_i <= Len(wr_words)
    /\ ~(test_width(wr_current_line, wr_words[wr_i]) <= wr_max_width)
    /\ wr_current_line # <<>>
    /\ wr_lines' = Append(wr_lines, wr_current_line)
    /\ wr_current_line' = wr_words[wr_i]
    /\ wr_i' = wr_i + 1
    /\ UNCHANGED <<wr_pc, wr_text, wr_max_width, wr_words, wk_vars, su_vars, jt_vars, gc_vars>>

\* Overflow with no line open: the word is too long, and is added anyway.
WrapLongWord ==
    /\ wr_pc = "loop" /\ wr_i <= Len(wr_words)
    /\ ~(test_width(wr_current_line, wr_words[wr_i]) <= wr_max_width)
    /\ wr_current_line = <<>>
    /\ wr_lines' = Append(wr_lines, wr_words[wr_i])
    /\ wr_i' = wr_i + 1
    /\ UNCHANGED <<wr_pc, wr_text, wr_max_width, wr_words, wr_current_line,
                   wk_vars, su_vars, jt_vars, gc_vars>>

\* After the loop: the open line, if any, is the last; return lines.
WrapReturn ==
    /\ wr_pc = "loop" /\ wr_i > Len(wr_words)
    /\ wr_pc' = "returned"
    /\ wr_lines' = IF wr_current_line # <<>>
                   THEN Append(wr_lines, wr_current_line) ELSE wr_lines
    /\ UNCHANGED <<wr_text, wr_max_width, wr_words, wr_i, wr_current_line,
                   wk_vars, su_vars, jt_vars, gc_vars>>

NextWrap == WrapBegin \/ WrapFits \/ WrapBreak \/ WrapLongWord \/ WrapReturn

SpecWrap == InitWrap /\ [][NextWrap]_vars

IsSingleWord(line) == \A k \in 1..Len(line) : line[k] # " "

RECURSIVE WordsOfLines(_)
WordsOfLines(lines) ==
    IF lines = <<>> THEN <<>> ELSE split(Head(lines)) \o WordsOfLines(Tail(lines))

\* C7: no line wrap_text returns is wider than max_width unless it is a single
\* word that is itself wider than max_width; such a word stands alone on its
\* line, and the lines hold the text's words whole and in order.
C7_WrapText ==
    wr_pc = "returned" =>
        /\ \A k \in 1..Len(wr_lines) :
              text_width(wr_lines[k]) > wr_max_width => IsSingleWord(wr_lines[k])
        /\ \A k \in 1..Len(wr_lines) :
              \A j \in 1..Len(split(wr_lines[k])) :
                  text_width(split(wr_lines[k])[j]) > wr_max_width
                      => wr_lines[k] = split(wr_lines[k])[j]
        /\ WordsOfLines(wr_lines) = split(wr_text)

\* A returned text of two lines: a line that fits, then one word wider than
\* max_width that was not joined to it.
C7_Witness ==
    /\ wr_pc = "returned"
    /\ Len(wr_lines) = 2
    /\ text_width(wr_lines[1]) <= wr_max_width
    /\ text_width(wr_lines[2]) > wr_max_width

(***************************************************************************)
(* draw_justified_text as a call: SpecJustify.  y is passed to every       *)
(* move_to unchanged and is left out.                                      *)
(***************************************************************************)
MaxJustifyLen == 7

MaxTargetWidth == 9

JustifyXs == {0, 3}

InitJustify ==
    /\ jt_pc = "called"
    /\ jt_text \in Texts(MaxJustifyLen)
    /\ jt_x \in JustifyXs
    /\ jt_target_width \in 0..MaxTargetWidth
    /\ jt_is_last_line \in BOOLEAN
    /\ jt_words = <<>> /\ jt_i = 0 /\ jt_current_x = rat(0) /\ jt_ops = <<>>
    /\ WeekIdle /\ SundayIdle /\ WrapIdle /\ CalendarIdle

\* move_to(x + (target_width / 2) - (w / 2), y); show_text(text); return
draw_centered ==
    /\ jt_ops' = <<[x |-> centered_x(jt_x, jt_target_width, text_width(jt_text)),
                    text |-> jt_text]>>
    /\ jt_pc' = "returned"
    /\ UNCHANGED <<jt_text, jt_x, jt_target_width, jt_is_last_line, jt_words, jt_i,
                   jt_current_x, wk_vars, su_vars, wr_vars, gc_vars>>

JustifyLastLine ==
    /\ jt_pc = "called"
    /\ jt_is_last_line
    /\ draw_centered

JustifyShortLine ==
    /\ jt_pc = "called"
    /\ ~jt_is_last_line
    /\ below_three_quarters(text_width(jt_text), jt_target_width)
    /\ draw_centered

JustifySingleWord ==
    /\ jt_pc = "called"
    /\ ~jt_is_last_line
    /\ ~below_three_quarters(text_width(jt_text), jt_target_width)
    /\ Len(split(jt_text)) <= 1
    /\ draw_centered

\* words = text.split(); the gap is computed; current_x = x
JustifyBegin ==
    /\ jt_pc = "called"
    /\ ~jt_is_last_line
    /\ ~below_three_quarters(text_width(jt_text), jt_target_width)
    /\ Len(split(jt_text)) > 1
    /\ jt_pc' = "loop"
    /\ jt_words' = split(jt_text)
    /\ jt_i' = 0
    /\ jt_current_x' = rat(jt_x)
    /\ UNCHANGED <<jt_text, jt_x, jt_target_width, jt_is_last_line, jt_ops,
                   wk_vars, su_vars, wr_vars, gc_vars>>

\* One turn of the loop: the word is drawn at current_x, which advances by the
\* word's width and, except after the last word, by the gap.
JustifyWord ==
    /\ jt_pc = "loop" /\ jt_i < Len(jt_words)
    /\ LET word == jt_words[jt_i + 1]
           after_word == rat_add(jt_current_x, rat(text_width(word)))
       IN  /\ jt_ops' = Append(jt_ops, [x |-> jt_current_x, text |-> word])
           /\ jt_current_x' =
                 IF jt_i < Len(jt_words) - 1
                 THEN rat_add(after_word, space_between_words(jt_target_width, jt_words))
                 ELSE after_word
    /\ jt_i' = jt_i + 1
    /\ UNCHANGED <<jt_pc, jt_text, jt_x, jt_target_width, jt_is_last_line, jt_words,
                   wk_vars, su_vars, wr_vars, gc_vars>>

JustifyReturn ==
    /\ jt_pc = "loop" /\ jt_i = Len(jt_words)
    /\ jt_pc' = "returned"
    /\ UNCHANGED <<jt_text, jt_x, jt_target_width, jt_is_last_line, jt_words, jt_i,
                   jt_current_x, jt_ops, wk_vars, su_vars, wr_vars, gc_vars>>

NextJustify ==
    \/ JustifyLastLine \/ JustifyShortLine \/ JustifySingleWord
    \/ JustifyBegin \/ JustifyWord \/ JustifyReturn

SpecJustify == InitJustify /\ [][NextJustify]_vars

\* The three cases in which the claim has the line centered.
ClaimCentered ==
    \/ jt_is_last_line
    \/ 4 * text_width(jt_text) < 3 * jt_target_width
    \/ Len(split(jt_text)) = 1

\* The claim's other case.
ClaimJustified ==
    /\ ~jt_is_last_line
    /\ 4 * text_width(jt_text) >= 3 * jt_target_width
    /\ Len(split(jt_text)) >= 2

\* C8: a last line, a line narrower than 75% of target_width and a one-word
\* line are drawn once, whole, with the midpoint of their width at
\* x + target_width/2.  Any other line of n >= 2 words is drawn word by word
\* from x, each origin the previous one plus the previous word's width plus
\* gap = (target_width - sum of word widths) / (n - 1), and the last word's
\* right edge is x + target_width.
C8_DrawJustifiedText ==
    jt_pc = "returned" =>
        /\ ClaimCentered =>
              /\ Len(jt_ops) = 1
              /\ jt_ops[1].text = jt_text
              /\ rat_eq(rat_add(jt_ops[1].x, rat_div(rat(text_width(jt_text)), 2)),
                        rat_add(rat(jt_x), rat_div(rat(jt_target_width), 2)))
        /\ ClaimJustified =>
              LET n == Len(split(jt_text))
                  total == sum_word_widths(split(jt_text))
                  last == jt_ops[n]
              IN  /\ Len(jt_ops) = n
                  /\ \A k \in 1..n : jt_ops[k].text = split(jt_text)[k]
                  /\ rat_eq(jt_ops[1].x, rat(jt_x))
                  /\ \A k \in 1..(n - 1) :
                        rat_eq(rat_sub(jt_ops[k + 1].x, jt_ops[k].x),
                               <<(n - 1) * text_width(jt_ops[k].text)
                                   + jt_target_width - total, n - 1>>)
                  /\ rat_eq(rat_add(last.x, rat(text_width(last.text))),
                            rat(jt_x + jt_target_width))

\* A line of four words was justified over a width it does not fill, with a
\* gap that is not a whole number.
C8_Witness ==
    /\ jt_pc = "returned"
    /\ ClaimJustified
    /\ Len(jt_ops) = 4
    /\ jt_target_width > text_width(jt_text)
    /\ (jt_target_width - sum_word_widths(jt_words)) % 3 # 0

(***************************************************************************)
(* gen_calendar: Spec.  The geometry of the page (pos_x, pos_y, x_margin)  *)
(* and the strings drawn are left out; every drawing call is counted.      *)
(* birthdate is a real date, so is_current_week cannot raise in draw_row.  *)
(***************************************************************************)
NumSampleBirths == 24

\* Birth dates 401 days apart from 1975-01-01: every weekday, every season,
\* every place in the leap cycle.
SampleBirths == {ymd2ord(1975, 1, 1) + 401 * k : k \in 0..(NumSampleBirths - 1)}

\* Leap days (a Sunday, a Tuesday, a Thursday), days around the new year, the
\* day after a leap day, and 1990-06-15.
SpecialBirths ==
    {ymd2ord(2004, 2, 29), ymd2ord(2000, 2, 29), ymd2ord(1996, 2, 29),
     ymd2ord(2000, 1, 1), ymd2ord(1999, 12, 31), ymd2ord(2001, 1, 3),
     ymd2ord(2023, 3, 1), ymd2ord(1990, 6, 15)}

\* The --darken-until argument, in days from the birth date: the day before
\* it, the week after it, some thirty years on, and past the last row.
DarkenOffsets == {-1, 8, 10957, 36890}

Arguments(b, t, a, d, s) ==
    [birthdate |-> b, title_len |-> t, age |-> a, darken_arg |-> d, texts |-> s]

GridArguments ==
    {Arguments(b, DEFAULT_TITLE_LEN, a, None, FALSE) :
        b \in SampleBirths \cup SpecialBirths, a \in {MIN_AGE, MAX_AGE}}

DarkenArguments ==
    {Arguments(b, MAX_TITLE_SIZE, MIN_AGE, b + off, TRUE) :
        b \in SpecialBirths, off \in DarkenOffsets}
    \cup {Arguments(ymd2ord(1990, 6, 15), MAX_TITLE_SIZE, MIN_AGE,
                    ymd2ord(2020, 1, 1), TRUE)}

BoundaryArguments ==
    {Arguments(ymd2ord(1990, 6, 15), t, a, None, FALSE) :
        t \in {MAX_TITLE_SIZE, MAX_TITLE_SIZE + 1},
        a \in {MIN_AGE - 1, MIN_AGE, MAX_AGE, MAX_AGE + 1}}

Init ==
    /\ gc_pc = "gen_calendar"
    /\ \E arg \in GridArguments \cup DarkenArguments \cup BoundaryArguments :
          /\ birthdate = arg.birthdate
          /\ title_len = arg.title_len
          /\ age = arg.age
          /\ darken_until_date = IF arg.darken_arg = None THEN None
                                 ELSE parse_darken_until_date(arg.darken_arg)
          /\ sidebar_text = arg.texts
          /\ subtitle_text = arg.texts
    /\ surface = FALSE
    /\ CalendarFresh
    /\ WeekIdle /\ SundayIdle /\ WrapIdle /\ JustifyIdle

others == <<wk_vars, su_vars, wr_vars, jt_vars>>
arguments == <<birthdate, title_len, age, darken_until_date, sidebar_text, subtitle_text>>
grid_locals == <<date, start_date, num_rows, box_size, row>>
row_locals == <<col, cell_date>>
drawn == <<last_square, prev_square_date, fill_counts, row_birthdays>>

\* if len(title) > MAX_TITLE_SIZE: raise ValueError
TitleTooLong ==
    /\ gc_pc = "gen_calendar"
    /\ title_too_long(title_len)
    /\ gc_pc' = "raised"
    /\ error' = TITLE_ERROR
    /\ UNCHANGED <<arguments, surface, ops, grid_locals, row_locals, drawn, others>>

\* if (age < MIN_AGE) or (age > MAX_AGE): raise ValueError
AgeInvalid ==
    /\ gc_pc = "gen_calendar"
    /\ ~title_too_long(title_len)
    /\ age_invalid(age)
    /\ gc_pc' = "raised"
    /\ error' = AGE_ERROR
    /\ UNCHANGED <<arguments, surface, ops, grid_locals, row_locals, drawn, others>>

\* The surface and context are created and the page is filled with white.
CreateSurface ==
    /\ gc_pc = "gen_calendar"
    /\ ~title_too_long(title_len)
    /\ ~age_invalid(age)
    /\ gc_pc' = "title_block"
    /\ surface' = TRUE
    /\ ops' = ops + 1
    /\ UNCHANGED <<arguments, error, grid_locals, row_locals, drawn, others>>

\* The subtitle, the title, the two lines of the quote, the attribution and,
\* when given, subtitle_text.
DrawTitleBlock ==
    /\ gc_pc = "title_block"
    /\ gc_pc' = "align"
    /\ ops' = ops + 5 + (IF subtitle_text THEN 1 ELSE 0)
    /\ UNCHANGED <<arguments, error, surface, grid_locals, row_locals, drawn, others>>

\* date = back_up_to_sunday(birthdate), and draw_grid is called with it.
AlignStart ==
    /\ gc_pc = "align"
    /\ gc_pc' = "draw_grid"
    /\ date' = back_up_to_sunday(birthdate)
    /\ UNCHANGED <<arguments, error, surface, ops, start_date, num_rows, box_size, row,
                   row_locals, drawn, others>>

\* draw_grid up to its loop: the box size, and the week numbers above the top row.
DrawGridHeader ==
    /\ gc_pc = "draw_grid"
    /\ gc_pc' = "rows"
    /\ num_rows' = age
    /\ box_size' = box_size_of(age)
    /\ start_date' = date
    /\ row' = 0
    /\ ops' = ops + NUM_COLUMNS
    /\ UNCHANGED <<arguments, error, surface, date, row_locals, drawn, others>>

\* A turn of draw_grid's loop up to draw_row's loop: the date label is drawn
\* and draw_row starts on the row's date.
RowBegin ==
    /\ gc_pc = "rows" /\ row < num_rows
    /\ gc_pc' = "cells"
    /\ ops' = ops + 1
    /\ col' = 0
    /\ cell_date' = date
    /\ row_birthdays' = {}
    /\ UNCHANGED <<arguments, error, surface, grid_locals, last_square,
                   prev_square_date, fill_counts, others>>

\* The square of fill `fill`, before darkening, is drawn at (row, col).
draw_square(fill) ==
    /\ last_square' = [row |-> row, col |-> col, date |-> cell_date,
                       fill |-> drawn_fill(fill, cell_date, darken_until_date)]
    /\ fill_counts' =
          [fill_counts EXCEPT ![drawn_fill(fill, cell_date, darken_until_date)] = @ + 1]
    /\ row_birthdays' = IF fill = BIRTHDAY_COLOUR
                        THEN row_birthdays \cup {cell_date} ELSE row_birthdays
    /\ prev_square_date' = last_square.date
    /\ ops' = ops + 1

\* A turn of draw_row's loop: the fill is chosen, the square drawn, the date
\* moved on a week.
DrawCell ==
    /\ gc_pc = "cells" /\ col < NUM_COLUMNS
    /\ draw_square(base_fill(cell_date, month_of(birthdate), day_of(birthdate)))
    /\ col' = col + 1
    /\ cell_date' = cell_date + weeks(1)
    /\ UNCHANGED <<gc_pc, arguments, error, surface, grid_locals, others>>

\* draw_row returns; the date moves on a row.
RowEnd ==
    /\ gc_pc = "cells" /\ col = NUM_COLUMNS
    /\ gc_pc' = "rows"
    /\ row' = row + 1
    /\ date' = next_row_date(date)
    /\ UNCHANGED <<arguments, error, surface, ops, start_date, num_rows, box_size,
                   row_locals, drawn, others>>

\* return x_margin, box_size
GridReturn ==
    /\ gc_pc = "rows" /\ row = num_rows
    /\ gc_pc' = "grid_returned"
    /\ UNCHANGED <<arguments, error, surface, ops, grid_locals, row_locals, drawn, others>>

\* The sidebar text, when given, and the two items of the key.
DrawSidebarAndKey ==
    /\ gc_pc = "grid_returned"
    /\ gc_pc' = "show_page"
    /\ ops' = ops + (IF sidebar_text THEN 1 ELSE 0) + 4
    /\ UNCHANGED <<arguments, error, surface, grid_locals, row_locals, drawn, others>>

ShowPage ==
    /\ gc_pc = "show_page"
    /\ gc_pc' = "done"
    /\ UNCHANGED <<arguments, error, surface, ops, grid_locals, row_locals, drawn, others>>

NextDrawGrid == DrawGridHeader \/ RowBegin \/ DrawCell \/ RowEnd \/ GridReturn

Next ==
    \/ TitleTooLong \/ AgeInvalid \/ CreateSurface \/ DrawTitleBlock \/ AlignStart
    \/ DrawGridHeader \/ RowBegin \/ DrawCell \/ RowEnd \/ GridReturn
    \/ DrawSidebarAndKey \/ ShowPage

Spec == Init /\ [][Next]_vars

(***************************************************************************)
(* draw_grid called on its own, with any row count: SpecDrawGrid.          *)
(***************************************************************************)
DrawGridAges == {MIN_AGE, 4 * MAX_AGE}

InitDrawGrid ==
    /\ gc_pc = "draw_grid"
    /\ birthdate \in {ymd2ord(1990, 6, 15), ymd2ord(2004, 2, 29)}
    /\ title_len = DEFAULT_TITLE_LEN
    /\ age \in DrawGridAges
    /\ darken_until_date = None
    /\ sidebar_text = FALSE /\ subtitle_text = FALSE
    /\ surface = TRUE
    /\ error = "" /\ ops = 0
    /\ date = back_up_to_sunday(birthdate)
    /\ start_date = 0 /\ num_rows = 0 /\ box_size = rat(0) /\ row = 0
    /\ col = 0 /\ cell_date = 0
    /\ last_square = NoSquare /\ prev_square_date = 0
    /\ fill_counts = [f \in AllFills |-> 0] /\ row_birthdays = {}
    /\ WeekIdle /\ SundayIdle /\ WrapIdle /\ JustifyIdle

SpecDrawGrid == InitDrawGrid /\ [][NextDrawGrid]_vars

(***************************************************************************)
(* The claims about the grid and gen_calendar.                             *)
(***************************************************************************)

SquareDrawn == last_square.row >= 0

\* The week-start date the claims give cell (r, c).
ClaimCellDate(r, c) == start_date + (r * 52 + c) * 7

\* C3: the week-start date of cell (r, c) is start_date + r*52 weeks + c weeks,
\* and the dates are strictly increasing in row-major order: each square's
\* date is later than that of the square drawn before it, which is the cell
\* to its left or, in column 0, column 51 of the row above.
C3_GridDates ==
    SquareDrawn =>
        /\ last_square.date = ClaimCellDate(last_square.row, last_square.col)
        /\ last_square.col > 0 =>
              /\ prev_square_date = ClaimCellDate(last_square.row, last_square.col - 1)
              /\ prev_square_date < last_square.date
        /\ (last_square.col = 0 /\ last_square.row > 0) =>
              /\ prev_square_date = ClaimCellDate(last_square.row - 1, 51)
              /\ prev_square_date < last_square.date

\* The first square of the second row has been drawn, 52 weeks after the
\* first square of the first.
C3_Witness ==
    /\ last_square.row = 1 /\ last_square.col = 0
    /\ last_square.date = start_date + 364
    /\ prev_square_date = start_date + 357

\* The classification draw_row makes of a week: is_current_week for the
\* birthday, then for 1 January.
ClaimBaseFill(d) ==
    IF is_current_week(d, month_of(birthdate), day_of(birthdate)) THEN BIRTHDAY_COLOUR
    ELSE IF is_current_week(d, 1, 1) THEN NEWYEAR_COLOUR
    ELSE WHITE

DarkFills == {<<6, 6, 6>>, <<1, 1, 1>>, <<4, 4, 4>>}

DarkSquares == fill_counts[<<6, 6, 6>>] + fill_counts[<<1, 1, 1>>] + fill_counts[<<4, 4, 4>>]

AllSquares == DarkSquares + fill_counts[WHITE] + fill_counts[BIRTHDAY_COLOUR]
                  + fill_counts[NEWYEAR_COLOUR]

\* C4: a square is darkened iff darken_until is set and the square's date is
\* strictly before it; darkening takes 0.4 from each channel of the fill the
\* classification chose and changes nothing else; when the grid is done the
\* number of darkened squares is the number of the age*52 cell dates strictly
\* before darken_until.
C4_Darkening ==
    /\ SquareDrawn =>
          LET before == (darken_until_date # None)
                            /\ (last_square.date < darken_until_date)
              base == ClaimBaseFill(last_square.date)
          IN  /\ (last_square.fill \in DarkFills) <=> before
              /\ before => last_square.fill = [k \in 1..3 |-> base[k] - 4]
              /\ ~before => last_square.fill = base
    /\ gc_pc \in {"grid_returned", "show_page", "done"} =>
          /\ AllSquares = age * 52
          /\ DarkSquares =
                Cardinality({k \in 0..(age * 52 - 1) :
                    (darken_until_date # None)
                        /\ (start_date + 7 * k < darken_until_date)})

\* 1990-06-15, 80 rows, darkened until the Sunday before 2020-01-01: the page
\* is done, with some of its 4160 squares darkened and some not.
C4_Witness ==
    /\ gc_pc = "done"
    /\ birthdate = ymd2ord(1990, 6, 15) /\ age = 80
    /\ darken_until_date = ymd2ord(2019, 12, 29)
    /\ DarkSquares > 0 /\ DarkSquares < 4160

\* Some day of [d, d + 7 days) is the anniversary (month, day) in its own
\* year, 28 February standing in for 29 February in a year that is not leap.
IsAnniversary(c, month, day) == c = ClaimDate(c.year, month, day)

WeekHasDay(d, month, day) ==
    \E t \in d..(d + 6) : IsAnniversary(ord2ymd(t), month, day)

Undarkened(fill) ==
    IF fill \in DarkFills THEN [k \in 1..3 |-> fill[k] + 4] ELSE fill

\* C5: each square is of exactly one class, the first that matches: Birthday
\* if its week holds the birthday, otherwise NewYear if its week holds
\* 1 January, otherwise Normal; a week holding both is Birthday.
C5_Classification ==
    SquareDrawn =>
        LET has_birthday == WeekHasDay(last_square.date, month_of(birthdate),
                                       day_of(birthdate))
            has_newyear == WeekHasDay(last_square.date, 1, 1)
        IN  /\ Undarkened(last_square.fill) \in Fills
            /\ has_birthday => Undarkened(last_square.fill) = BIRTHDAY_COLOUR
            /\ (~has_birthday /\ has_newyear)
                  => Undarkened(last_square.fill) = NEWYEAR_COLOUR
            /\ (~has_birthday /\ ~has_newyear) => Undarkened(last_square.fill) = WHITE

\* A week that holds both 1 January and the birthday was drawn as Birthday.
C5_Witness ==
    /\ SquareDrawn
    /\ WeekHasDay(last_square.date, 1, 1)
    /\ WeekHasDay(last_square.date, month_of(birthdate), day_of(birthdate))
    /\ month_of(birthdate) = 1 /\ day_of(birthdate) = 3
    /\ last_square.fill = BIRTHDAY_COLOUR

\* C6: a title longer than 50 characters, or an age outside [80, 100], makes
\* gen_calendar raise an error with the message of the violated field before
\* the surface exists and before any drawing call; a title of at most 50
\* characters with an age in [80, 100] raises nothing and goes on to the
\* surface.
C6_Validation ==
    /\ (title_len > 50 \/ age < 80 \/ age > 100) =>
          /\ gc_pc \in {"gen_calendar", "raised"}
          /\ ~surface /\ ops = 0
          /\ ENABLED (TitleTooLong \/ AgeInvalid) \/ gc_pc = "raised"
    /\ gc_pc = "raised" =>
          /\ title_len > 50 => error = "Title can't be longer than 50 characters"
          /\ title_len <= 50 =>
                /\ error = "Invalid age, must be between 80 and 100"
                /\ age < 80 \/ age > 100
    /\ (title_len <= 50 /\ age >= 80 /\ age <= 100) =>
          /\ gc_pc # "raised" /\ error = ""
          /\ gc_pc = "gen_calendar" => ENABLED CreateSurface

\* An age of 79 under a title of exactly 50 characters was refused.
C6_Witness ==
    /\ gc_pc = "raised"
    /\ title_len = 50 /\ age = 79
    /\ error = "Invalid age, must be between 80 and 100"
    /\ ~surface /\ ops = 0

Anniversary(r) ==
    LET c == ClaimDate(year_of(birthdate) + r, month_of(birthdate), day_of(birthdate))
    IN  ymd2ord(c.year, c.month, c.day)

RowComplete == gc_pc = "cells" /\ col = NUM_COLUMNS

\* C10: with the grid started at back_up_to_sunday(birthdate), every row of 52
\* cells holds exactly one cell classified Birthday, the week of the row's own
\* anniversary: the r-th anniversary lies in the 364 days of row r, the one
\* before it and the one after it do not, and in row 0 the cell is column 0.
C10_OneBirthdayPerRow ==
    RowComplete =>
        /\ start_date = back_up_to_sunday(birthdate)
        /\ Cardinality(row_birthdays) = 1
        /\ \A w \in row_birthdays : w <= Anniversary(row) /\ Anniversary(row) < w + 7
        /\ date <= Anniversary(row) /\ Anniversary(row) < date + 364
        /\ row > 0 => Anniversary(row - 1) < date
        /\ Anniversary(row + 1) >= date + 364
        /\ row = 0 => row_birthdays = {start_date}

\* The hundredth row of a leap-day birthday is complete: its birthday week is
\* that of 28 February 2103.
C10_Witness ==
    /\ RowComplete
    /\ birthdate = ymd2ord(2004, 2, 29) /\ row = 99
    /\ row_birthdays = {back_up_to_sunday(ymd2ord(2103, 2, 28))}

====
